---- MODULE Spec2Model ----
(***************************************************************************)
(* Model of the Peakmails SDK client: the signed, project-scoped variant   *)
(* (src/unnamed/part_000) and the unsigned, contact-id variant             *)
(* (src/index.js).  JavaScript values are tagged records, so that the      *)
(* truthiness and typeof tests of the validators are computed as the code  *)
(* computes them.                                                          *)
(***************************************************************************)
EXTENDS Integers, Sequences, FiniteSets, Bags, TLC

VARIABLES
    env,      \* the global scope the script runs in
    ctorCfg,  \* the argument of the constructor call, NoCfg before it
    ctorErr,  \* what the constructor threw, NoErr if nothing
    client,   \* the fields of the constructed instance
    pending,  \* the bag of the calls awaiting the transport
    last,     \* the call that settled most recently
    tk        \* two (apiKey, origin) pairs and their tokens

vars == <<env, ctorCfg, ctorErr, client, pending, last, tk>>

(* ------------------------------ bounds -------------------------------- *)

\* calls that may await the transport at the same time
MaxInFlight == 2

(* --------------------------- JavaScript values ------------------------ *)

Undefined == [t |-> "undefined"]
Null == [t |-> "null"]
Str(s) == [t |-> "string", v |-> s]
Num(n) == [t |-> "number", v |-> n]
Arr(s) == [t |-> "array", v |-> s]
EmptyObj == [t |-> "object"]

\* typeof v
TypeOf(v) ==
    CASE v.t = "undefined" -> "undefined"
      [] v.t = "string" -> "string"
      [] v.t = "number" -> "number"
      [] OTHER -> "object"

\* ToBoolean(v): undefined, null, "" and 0 are falsy
Truthy(v) ==
    CASE v.t = "undefined" -> FALSE
      [] v.t = "null" -> FALSE
      [] v.t = "string" -> v.v # ""
      [] v.t = "number" -> v.v # 0
      [] OTHER -> TRUE

IsNullish(v) == v.t \in {"undefined", "null"}

\* v[p] for a value that is not undefined or null (reading those throws)
GetProp(v, p) ==
    IF v.t = "object" /\ p \in DOMAIN v /\ p # "t" THEN v[p] ELSE Undefined

\* `${v}` in a template literal
JsToString(v) ==
    CASE v.t = "undefined" -> "undefined"
      [] v.t = "null" -> "null"
      [] v.t = "string" -> v.v
      [] v.t = "number" -> ToString(v.v)
      [] OTHER -> "[object Object]"

Array_isArray(v) == v.t = "array"

(* ------------------------------ errors -------------------------------- *)

NoErr == [name |-> "none"]
\* new Error(msg)
Error(msg) == [name |-> "Error", message |-> msg]
\* the engine's TypeError for reading or destructuring a property of
\* undefined or null
TypeError == [name |-> "TypeError", message |-> "cannot read properties of undefined or null"]

Throw(e) == [k |-> "throw", err |-> e]

(* ----------------------------- environment ---------------------------- *)

\* the global scope: no window, a window without location, or a window
\* whose location has the given origin
NoWindow == [window |-> FALSE]
WindowNoLocation == [window |-> TRUE, location |-> FALSE]
Location(o) == [window |-> TRUE, location |-> TRUE, origin |-> o]

Envs ==
    {NoWindow, WindowNoLocation, Location(Str("")),
     Location(Str("https://a")), Location(Str("https://b"))}

(* ----------------------------- constructor ---------------------------- *)

NoClient == [variant |-> "none"]
NoCfg == [t |-> "none"]

signedConstructorErrBroken(cfg) ==
    IF ~Truthy(GetProp(cfg, "apiKey")) \/ TypeOf(GetProp(cfg, "apiKey")) # "string"
    THEN Error("Invalid API key")
    ELSE IF ~Truthy(GetProp(cfg, "domain")) \/ TypeOf(GetProp(cfg, "domain")) # "string"
    THEN Error("Invalid domain")
    ELSE NoErr

\* part_000, constructor: the error it throws, NoErr when it returns
signedConstructorErr(cfg) ==
    IF IsNullish(cfg) THEN TypeError
    ELSE IF ~Truthy(GetProp(cfg, "apiKey")) \/ TypeOf(GetProp(cfg, "apiKey")) # "string"
    THEN Error("Invalid API key")
    ELSE IF ~Truthy(GetProp(cfg, "domain")) \/ TypeOf(GetProp(cfg, "domain")) # "string"
    THEN Error("Invalid domain")
    ELSE IF ~Truthy(GetProp(cfg, "projectId")) \/ TypeOf(GetProp(cfg, "projectId")) # "string"
    THEN Error("Invalid project ID")
    ELSE NoErr

\* index.js, constructor
unsignedConstructorErr(cfg) ==
    IF IsNullish(cfg) THEN TypeError
    ELSE IF ~Truthy(GetProp(cfg, "apiKey")) \/ TypeOf(GetProp(cfg, "apiKey")) # "string"
    THEN Error("Invalid API key")
    ELSE IF ~Truthy(GetProp(cfg, "domain")) \/ TypeOf(GetProp(cfg, "domain")) # "string"
    THEN Error("Invalid domain")
    ELSE NoErr

\* the fields the constructors assign
signedFields(cfg) ==
    [variant |-> "signed",
     apiKey |-> GetProp(cfg, "apiKey"),
     domain |-> GetProp(cfg, "domain"),
     projectId |-> GetProp(cfg, "projectId"),
     baseUrl |-> Str("https://peakmails.com/api/v1"),
     secretKey |-> GetProp(cfg, "secretKey")]

unsignedFields(cfg) ==
    [variant |-> "unsigned",
     apiKey |-> GetProp(cfg, "apiKey"),
     domain |-> GetProp(cfg, "domain"),
     projectId |-> Undefined,
     baseUrl |-> Str("https://api.peakmails.com/v1"),
     secretKey |-> Undefined]

(* ------------------------- origin and token --------------------------- *)

\* part_000, getOrigin
getOrigin(e) ==
    IF e.window /\ e.location THEN e.origin ELSE Null

\* SHA-256 as an injective symbolic digest of its input string
sha256hex(s) == [sha256hex |-> s]

generateCSRFTokenKeyOnly(apiKey, origin) ==
    sha256hex(JsToString(apiKey))

\* part_000, generateCSRFToken: `${this.apiKey}${origin}` hashed
generateCSRFToken(apiKey, origin) ==
    sha256hex(JsToString(apiKey) \o JsToString(origin))

resolveOriginNoSentinel(c, e) == getOrigin(e)

\* the origin kept in a field shared by the calls in flight
resolveOriginShared(c, e) ==
    IF pending # EmptyBag THEN (CHOOSE p \in BagToSet(pending) : TRUE).origin
    ELSE IF Truthy(c.secretKey) THEN Str("backend-implementation") ELSE getOrigin(e)

\* part_000, request, lines 46-51
resolveOrigin(c, e) ==
    IF Truthy(c.secretKey) THEN Str("backend-implementation") ELSE getOrigin(e)

(* ------------------------------ request ------------------------------- *)

NoReq == [method |-> "none"]
Send(r, o) == [k |-> "send", req |-> r, origin |-> o]

originMissingNullOnly(origin) == origin.t = "null"

\* part_000, request, line 52: if (!origin)
originMissing(origin) == ~Truthy(origin)

signedHeadersNoBearer(c, origin, csrfToken) ==
    [Authorization |-> JsToString(c.apiKey),
     ContentType |-> "application/json",
     Domain |-> c.domain,
     Project |-> c.projectId,
     Origin |-> origin,
     CSRFToken |-> csrfToken]

\* part_000, request, lines 62-69
signedHeaders(c, origin, csrfToken) ==
    [Authorization |-> "Bearer " \o JsToString(c.apiKey),
     ContentType |-> "application/json",
     Domain |-> c.domain,
     Project |-> c.projectId,
     Origin |-> origin,
     CSRFToken |-> csrfToken]

\* index.js, request, lines 34-38
unsignedHeaders(c) ==
    [Authorization |-> "Bearer " \o JsToString(c.apiKey),
     ContentType |-> "application/json",
     Domain |-> c.domain]

\* the `data = {}` default parameter of request
dataOrDefault(data) == IF data.t = "undefined" THEN EmptyObj ELSE data

\* part_000, request, up to the call of axios: the error thrown, or the
\* request handed to the transport
signedRequest(c, e, method, endpoint, data) ==
    LET origin == resolveOrigin(c, e) IN
    IF originMissing(origin) THEN Throw(Error("Origin not found"))
    ELSE LET csrfToken == generateCSRFToken(c.apiKey, origin) IN
         Send([method |-> method,
               url |-> JsToString(c.baseUrl) \o endpoint,
               headers |-> signedHeaders(c, origin, csrfToken),
               data |-> dataOrDefault(data)], origin)

\* index.js, request, up to the call of axios
unsignedRequest(c, e, method, endpoint, data) ==
    Send([method |-> method,
          url |-> JsToString(c.baseUrl) \o endpoint,
          headers |-> unsignedHeaders(c),
          data |-> dataOrDefault(data)], Undefined)

(* --------------------------- public operations ------------------------ *)

\* the i-th positional argument of a call, undefined when not passed
Arg(a, i) == IF i <= Len(a) THEN a[i] ELSE Undefined

\* !x || typeof x !== 'string'
notNonEmptyString(x) == ~Truthy(x) \/ TypeOf(x) # "string"

\* !Array.isArray(x) || x.length === 0
notNonEmptyArray(x) == ~Array_isArray(x) \/ Len(x.v) = 0

\* part_000, addContact
signed_addContact(c, e, a) ==
    LET contactData == Arg(a, 1) IN
    IF IsNullish(contactData) THEN Throw(TypeError)
    ELSE IF notNonEmptyString(GetProp(contactData, "email"))
    THEN Throw(Error("Invalid email address"))
    ELSE signedRequest(c, e, "POST", "/add-contact", contactData)

\* part_000, addContactToCategories
signed_addContactToCategories(c, e, a) ==
    IF IsNullish(Arg(a, 1)) THEN Throw(TypeError)
    ELSE LET email == GetProp(Arg(a, 1), "email")
             categories == GetProp(Arg(a, 1), "categories") IN
    IF notNonEmptyString(email) THEN Throw(Error("Invalid email address"))
    ELSE IF notNonEmptyArray(categories) THEN Throw(Error("Invalid category IDs"))
    ELSE signedRequest(c, e, "POST", "/add-contact-to-category",
                       [t |-> "object", email |-> email, categories |-> categories])

\* part_000, triggerScenario
signed_triggerScenario(c, e, a) ==
    IF IsNullish(Arg(a, 1)) THEN Throw(TypeError)
    ELSE LET scenario == GetProp(Arg(a, 1), "scenario")
             email == GetProp(Arg(a, 1), "email") IN
    IF notNonEmptyString(scenario) THEN Throw(Error("Invalid scenario ID"))
    ELSE IF notNonEmptyString(email) THEN Throw(Error("Invalid email address"))
    ELSE signedRequest(c, e, "POST", "/trigger-scenario",
                       [t |-> "object", scenario |-> scenario, email |-> email])

\* part_000, getScenarioCustomFields
signed_getScenarioCustomFields(c, e, a) ==
    IF IsNullish(Arg(a, 1)) THEN Throw(TypeError)
    ELSE LET scenario == GetProp(Arg(a, 1), "scenario") IN
    IF notNonEmptyString(scenario) THEN Throw(Error("Invalid scenario ID"))
    ELSE signedRequest(c, e, "GET",
                       "/get-scenario-custom-fields?scenario=" \o JsToString(scenario),
                       Undefined)

\* index.js, addContact
unsigned_addContact(c, e, a) ==
    LET contactData == Arg(a, 1) IN
    IF IsNullish(contactData) THEN Throw(TypeError)
    ELSE IF notNonEmptyString(GetProp(contactData, "email"))
    THEN Throw(Error("Invalid email address"))
    ELSE unsignedRequest(c, e, "POST", "/contacts", contactData)

\* index.js, addContactToCategories
unsigned_addContactToCategories(c, e, a) ==
    LET contactId == Arg(a, 1)
        categoryIds == Arg(a, 2) IN
    IF notNonEmptyString(contactId) THEN Throw(Error("Invalid contact ID"))
    ELSE IF notNonEmptyArray(categoryIds) THEN Throw(Error("Invalid category IDs"))
    ELSE unsignedRequest(c, e, "POST",
                         "/contacts/" \o JsToString(contactId) \o "/categories",
                         [t |-> "object", categoryIds |-> categoryIds])

\* index.js, triggerScenario
unsigned_triggerScenario(c, e, a) ==
    LET scenarioId == Arg(a, 1)
        contactId == Arg(a, 2) IN
    IF notNonEmptyString(scenarioId) THEN Throw(Error("Invalid scenario ID"))
    ELSE IF notNonEmptyString(contactId) THEN Throw(Error("Invalid contact ID"))
    ELSE unsignedRequest(c, e, "POST",
                         "/scenarios/" \o JsToString(scenarioId) \o "/trigger",
                         [t |-> "object", contactId |-> contactId])

\* new URLSearchParams(options).toString() for options with the documented
\* keys page and limit
queryParams(options) ==
    LET page == GetProp(options, "page")
        limit == GetProp(options, "limit")
        p == IF page.t = "undefined" THEN "" ELSE "page=" \o JsToString(page)
        l == IF limit.t = "undefined" THEN "" ELSE "limit=" \o JsToString(limit)
    IN IF p # "" /\ l # "" THEN p \o "&" \o l ELSE p \o l

\* the `options = {}` default parameter
optionsOrDefault(o) == IF o.t = "undefined" THEN EmptyObj ELSE o

\* index.js, getScenarios
unsigned_getScenarios(c, e, a) ==
    LET q == queryParams(optionsOrDefault(Arg(a, 1))) IN
    unsignedRequest(c, e, "GET",
                    "/scenarios" \o (IF q # "" THEN "?" \o q ELSE ""), Undefined)

\* index.js, getScenarioCustomFields
unsigned_getScenarioCustomFields(c, e, a) ==
    LET scenarioId == Arg(a, 1) IN
    IF notNonEmptyString(scenarioId) THEN Throw(Error("Invalid scenario ID"))
    ELSE unsignedRequest(c, e, "GET",
                         "/scenarios/" \o JsToString(scenarioId) \o "/custom-fields",
                         Undefined)

\* index.js, getCategories
unsigned_getCategories(c, e, a) ==
    LET q == queryParams(optionsOrDefault(Arg(a, 1))) IN
    unsignedRequest(c, e, "GET",
                    "/categories" \o (IF q # "" THEN "?" \o q ELSE ""), Undefined)

\* index.js, getContactDetails
unsigned_getContactDetails(c, e, a) ==
    LET contactId == Arg(a, 1) IN
    IF notNonEmptyString(contactId) THEN Throw(Error("Invalid contact ID"))
    ELSE unsignedRequest(c, e, "GET", "/contacts/" \o JsToString(contactId),
                         Undefined)

SignedOps ==
    {"addContact", "addContactToCategories", "triggerScenario",
     "getScenarioCustomFields"}

UnsignedOps ==
    SignedOps \cup {"getScenarios", "getCategories", "getContactDetails"}

OpsOf(c) == IF c.variant = "signed" THEN SignedOps ELSE UnsignedOps

\* the synchronous part of a call of operation op with arguments a: what
\* runs before the first await
invoke(c, e, op, a) ==
    IF c.variant = "signed"
    THEN CASE op = "addContact" -> signed_addContact(c, e, a)
           [] op = "addContactToCategories" -> signed_addContactToCategories(c, e, a)
           [] op = "triggerScenario" -> signed_triggerScenario(c, e, a)
           [] op = "getScenarioCustomFields" -> signed_getScenarioCustomFields(c, e, a)
    ELSE CASE op = "addContact" -> unsigned_addContact(c, e, a)
           [] op = "addContactToCategories" -> unsigned_addContactToCategories(c, e, a)
           [] op = "triggerScenario" -> unsigned_triggerScenario(c, e, a)
           [] op = "getScenarios" -> unsigned_getScenarios(c, e, a)
           [] op = "getScenarioCustomFields" -> unsigned_getScenarioCustomFields(c, e, a)
           [] op = "getCategories" -> unsigned_getCategories(c, e, a)
           [] op = "getContactDetails" -> unsigned_getContactDetails(c, e, a)

(* ------------------------------ transport ----------------------------- *)

NoOut == [k |-> "none"]

\* what `await axios(...)` yields for a response with the given status and
\* parsed body: the response when the status is 2xx, else it throws an
\* error that carries the response
axiosResponse(status, data) ==
    IF status >= 200 /\ status < 300
    THEN [k |-> "response", status |-> status, data |-> data]
    ELSE [k |-> "error", response |-> TRUE, request |-> TRUE,
          status |-> status, data |-> data,
          message |-> "Request failed with status code " \o ToString(status)]

\* the request went out and no response came back
axiosNoResponse ==
    [k |-> "error", response |-> FALSE, request |-> TRUE,
     status |-> 0, data |-> Undefined, message |-> "Network Error"]

\* an error raised while the request was set up
axiosSetupError(msg) ==
    [k |-> "error", response |-> FALSE, request |-> FALSE,
     status |-> 0, data |-> Undefined, message |-> msg]

Resolve(v) == [k |-> "resolve", value |-> v]

onFulfilledWhole(response) == Resolve([t |-> "object", data |-> response.data])

\* request, `return response.data`
onFulfilled(response) == Resolve(response.data)

\* request, the catch block: what it throws
onRejected(error) ==
    IF error.response
    THEN IF IsNullish(error.data)
         THEN Throw(TypeError)
         ELSE Throw(Error("Peakmails API Error: " \o ToString(error.status)
                          \o " - " \o JsToString(GetProp(error.data, "message"))))
    ELSE IF error.request
    THEN Throw(Error("Peakmails API Error: No response received from the server"))
    ELSE Throw(Error("Peakmails SDK Error: " \o error.message))

\* request, from the await on: how the call settles for a transport outcome
settle(out) == IF out.k = "response" THEN onFulfilled(out) ELSE onRejected(out)

(* ------------------------------- inputs ------------------------------- *)

\* configuration objects; a field that is undefined stands for a missing one
CfgObjects(A, D, P, S) ==
    {[t |-> "object", apiKey |-> a, domain |-> d, projectId |-> p, secretKey |-> s] :
        a \in A, d \in D, p \in P, s \in S}

\* the arguments of the constructor, for the specification of construction
CfgsCtor ==
    {Undefined} \cup
    CfgObjects({Undefined, Null, Str(""), Str("k"), Str("k1"), Num(7)},
               {Undefined, Str(""), Str("d"), Num(7)},
               {Undefined, Str(""), Str("p"), Num(7)},
               {Undefined, Str(""), Str("s")})

\* the arguments of the constructor, for the specification of the calls
CfgsMain(variant) ==
    IF variant = "signed"
    THEN CfgObjects({Str(""), Str("k"), Str("k1")}, {Str("d")}, {Str("p")},
                    {Undefined, Str(""), Str("s")})
    ELSE CfgObjects({Str(""), Str("k"), Str("k1")}, {Str("d")}, {Undefined},
                    {Undefined})

Emails == {Undefined, Str(""), Num(7), Str("a@b.com")}
Categories == {Undefined, Arr(<<>>), Arr(<<Str("c1")>>), Arr(<<Num(7)>>), Str("c1")}
Ids == {Undefined, Str(""), Num(7), Str("s1")}

\* argument lists of the signed variant's operations
SignedArgs(op) ==
    {<<>>} \cup
    CASE op = "addContact" ->
           {<<EmptyObj>>} \cup {<<[t |-> "object", email |-> x]>> : x \in Emails}
      [] op = "addContactToCategories" ->
           {<<[t |-> "object", email |-> x, categories |-> y]>> :
               x \in {Undefined, Str("a@b.com")}, y \in Categories}
      [] op = "triggerScenario" ->
           {<<[t |-> "object", scenario |-> x, email |-> y]>> :
               x \in {Undefined, Str("s1")}, y \in {Undefined, Str(""), Str("a@b.com")}}
      [] op = "getScenarioCustomFields" ->
           {<<[t |-> "object", scenario |-> x]>> : x \in Ids}

Options == {[t |-> "object", page |-> Num(2), limit |-> Num(10)]}

\* argument lists of the unsigned variant's operations
UnsignedArgs(op) ==
    {<<>>} \cup
    CASE op = "addContact" ->
           {<<EmptyObj>>} \cup {<<[t |-> "object", email |-> x]>> : x \in Emails}
      [] op = "addContactToCategories" ->
           {<<x, y>> : x \in {Undefined, Str("c9")}, y \in Categories}
      [] op = "triggerScenario" ->
           {<<x, y>> : x \in {Undefined, Str("s1")}, y \in {Undefined, Str(""), Str("c9")}}
      [] op = "getScenarios" -> {<<x>> : x \in Options}
      [] op = "getScenarioCustomFields" -> {<<x>> : x \in Ids}
      [] op = "getCategories" -> {<<x>> : x \in Options}
      [] op = "getContactDetails" -> {<<x>> : x \in Ids}

ArgsOf(c, op) == IF c.variant = "signed" THEN SignedArgs(op) ELSE UnsignedArgs(op)

\* parsed response bodies
OkBodies == {Null, [t |-> "object", id |-> Str("c1")]}
ErrBodies ==
    {Undefined, Null, EmptyObj, [t |-> "object", message |-> Str("boom")]}

\* what the transport can answer to a request that was sent
Outcomes ==
    {axiosResponse(200, b) : b \in OkBodies}
    \cup {axiosResponse(500, b) : b \in ErrBodies}
    \cup {axiosNoResponse, axiosSetupError("bad config")}

(* ------------------------------- state -------------------------------- *)

NoTk == [pc |-> "none"]
NoCall == [st |-> "none"]

Init ==
    /\ env \in Envs
    /\ ctorCfg = NoCfg
    /\ ctorErr = NoErr
    /\ client = NoClient
    /\ pending = EmptyBag
    /\ last = NoCall
    /\ tk = NoTk

\* new PeakmailsSDK(cfg) of the given variant; one construction per behaviour
Construct(variant, cfg) ==
    /\ ctorCfg = NoCfg
    /\ tk = NoTk
    /\ LET err == IF variant = "signed" THEN signedConstructorErr(cfg)
                  ELSE unsignedConstructorErr(cfg) IN
       /\ ctorCfg' = [t |-> "cfg", variant |-> variant, cfg |-> cfg]
       /\ ctorErr' = err
       /\ client' = IF err # NoErr THEN NoClient
                    ELSE IF variant = "signed" THEN signedFields(cfg)
                    ELSE unsignedFields(cfg)
    /\ UNCHANGED <<env, pending, last, tk>>

\* a settled call: its request (NoReq if none was sent), the transport's
\* answer (NoOut if none) and the value or the error it settled with
Settled(op, a, req, origin, out, r) ==
    [op |-> op, args |-> a, req |-> req, origin |-> origin, out |-> out,
     st |-> IF r.k = "resolve" THEN "resolved" ELSE "rejected",
     value |-> IF r.k = "resolve" THEN r.value ELSE Undefined,
     err |-> IF r.k = "resolve" THEN NoErr ELSE r.err]

\* a caller invokes a public operation: the operation runs up to its first
\* await, so it either throws or hands its request to the transport
Invoke(op, a) ==
    /\ client # NoClient
    /\ LET r == invoke(client, env, op, a) IN
       IF r.k = "send"
       THEN /\ BagCardinality(pending) < MaxInFlight
            /\ pending' = pending (+) SetToBag(
                            {[op |-> op, args |-> a, req |-> r.req, origin |-> r.origin]})
            /\ last' = last
       ELSE /\ last' = Settled(op, a, NoReq, Undefined, NoOut, r)
            /\ pending' = pending
    /\ UNCHANGED <<env, ctorCfg, ctorErr, client, tk>>

\* the transport completes the request of the pending call p and the call
\* settles
Respond(p, out) ==
    /\ BagIn(p, pending)
    /\ last' = Settled(p.op, p.args, p.req, p.origin, out, settle(out))
    /\ pending' = pending (-) SetToBag({p})
    /\ UNCHANGED <<env, ctorCfg, ctorErr, client, tk>>

\* the page navigates, or the script runs in another global scope
SetEnv(e) ==
    /\ e # env
    /\ tk = NoTk
    /\ env' = e
    /\ UNCHANGED <<ctorCfg, ctorErr, client, pending, last, tk>>

Next ==
    \/ \E variant \in {"signed", "unsigned"} :
          \E cfg \in CfgsMain(variant) : Construct(variant, cfg)
    \/ \E op \in OpsOf(client) : \E a \in ArgsOf(client, op) : Invoke(op, a)
    \/ \E p \in BagToSet(pending), out \in Outcomes : Respond(p, out)
    \/ \E e \in Envs : SetEnv(e)

Spec == Init /\ [][Next]_vars

(* ----------------------- construction alone --------------------------- *)

NextCtor ==
    \E variant \in {"signed", "unsigned"} : \E cfg \in CfgsCtor : Construct(variant, cfg)

SpecCtor == Init /\ [][NextCtor]_vars

(* ------------------------ token generation alone ---------------------- *)

TokenKeys == {"k", "k1", "key"}
TokenOrigins == {"x", "1x", "https://a", "backend-implementation"}

InitToken ==
    /\ env = NoWindow
    /\ ctorCfg = NoCfg
    /\ ctorErr = NoErr
    /\ client = NoClient
    /\ pending = EmptyBag
    /\ last = NoCall
    /\ \E k1 \in TokenKeys, k2 \in TokenKeys, o1 \in TokenOrigins, o2 \in TokenOrigins :
          tk = [pc |-> "in", k1 |-> k1, o1 |-> o1, k2 |-> k2, o2 |-> o2]

\* generateCSRFToken(o1) on a client whose apiKey is k1, and
\* generateCSRFToken(o2) on a client whose apiKey is k2
ComputeTokens ==
    /\ tk.pc = "in"
    /\ tk' = [pc |-> "out", k1 |-> tk.k1, o1 |-> tk.o1, k2 |-> tk.k2, o2 |-> tk.o2,
              t1 |-> generateCSRFToken(Str(tk.k1), Str(tk.o1)),
              t2 |-> generateCSRFToken(Str(tk.k2), Str(tk.o2))]
    /\ UNCHANGED <<env, ctorCfg, ctorErr, client, pending, last>>

NextToken == ComputeTokens

SpecToken == InitToken /\ [][NextToken]_vars

(* ====================================================================== *)
(* The error taxonomy of the specification, read off the thrown errors    *)
(* ====================================================================== *)

NonEmptyString(v) == v.t = "string" /\ v.v # ""

IsConfigurationError(e) ==
    e.name = "Error"
    /\ e.message \in {"Invalid API key", "Invalid domain", "Invalid project ID"}

IsValidationError(e) ==
    e.name = "Error"
    /\ e.message \in {"Invalid email address", "Invalid category IDs",
                      "Invalid scenario ID", "Invalid contact ID"}

IsOriginUnavailableError(e) == e = Error("Origin not found")

IsUpstreamApiError(e, status, msg) ==
    e = Error("Peakmails API Error: " \o ToString(status) \o " - " \o msg)

IsTransportError(e) ==
    e = Error("Peakmails API Error: No response received from the server")

IsUnexpectedClientError(e, msg) == e = Error("Peakmails SDK Error: " \o msg)

\* a list whose elements are all strings
ListOfStrings(v) ==
    v.t = "array" /\ Len(v.v) > 0 /\ \A j \in 1..Len(v.v) : v.v[j].t = "string"

\* the table of the public operations: are the arguments valid?
ArgsValid(variant, op, a) ==
    LET o == Arg(a, 1) IN
    IF variant = "signed"
    THEN /\ o.t = "object"
         /\ CASE op = "addContact" -> NonEmptyString(GetProp(o, "email"))
              [] op = "addContactToCategories" ->
                    /\ NonEmptyString(GetProp(o, "email"))
                    /\ ListOfStrings(GetProp(o, "categories"))
              [] op = "triggerScenario" ->
                    /\ NonEmptyString(GetProp(o, "scenario"))
                    /\ NonEmptyString(GetProp(o, "email"))
              [] op = "getScenarioCustomFields" -> NonEmptyString(GetProp(o, "scenario"))
    ELSE CASE op = "addContact" -> o.t = "object" /\ NonEmptyString(GetProp(o, "email"))
           [] op = "addContactToCategories" ->
                 NonEmptyString(o) /\ ListOfStrings(Arg(a, 2))
           [] op = "triggerScenario" -> NonEmptyString(o) /\ NonEmptyString(Arg(a, 2))
           [] op = "getScenarioCustomFields" -> NonEmptyString(o)
           [] op = "getContactDetails" -> NonEmptyString(o)
           [] OTHER -> TRUE

\* the calls whose request went to the transport: those in flight, and the
\* last settled one if it had sent its request
LastSent == last.st # "none" /\ last.req # NoReq
SentCalls ==
    BagToSet(pending)
    \cup (IF LastSent
          THEN {[op |-> last.op, args |-> last.args, req |-> last.req,
                 origin |-> last.origin]}
          ELSE {})

(* ------------------------------- C1 ----------------------------------- *)

\* C1: a call of a public operation whose arguments are invalid per the
\* table (required field missing, empty or of the wrong shape, argument
\* object absent, empty category list, non-string category) fails with
\* ValidationError and sends no HTTP request.
C1_InvalidArgsRejected ==
    /\ \A p \in SentCalls : ArgsValid(client.variant, p.op, p.args)
    /\ (last.st # "none" /\ ~ArgsValid(client.variant, last.op, last.args))
          => (last.st = "rejected" /\ IsValidationError(last.err) /\ last.req = NoReq)

(* ------------------------------- C2 ----------------------------------- *)

HasLocation(e) == e.window /\ e.location

\* a step in which a public operation was invoked
InvokeStep ==
    /\ client # NoClient
    /\ env' = env
    /\ BagCardinality(pending') >= BagCardinality(pending)
    /\ <<pending', last'>> # <<pending, last>>

C2_SentHasOrigin ==
    client.variant = "signed" =>
        \A p \in SentCalls : NonEmptyString(p.origin) /\ p.req.headers.Origin = p.origin

\* C2: on a signed client built without a secretKey, where no location
\* object exists, an operation sends no request and fails, with
\* OriginUnavailableError when its arguments are valid; and every request
\* that was sent was sent by a call that had resolved a non-empty origin.
C2_NoOriginNoRequest ==
    [][/\ C2_SentHasOrigin'
       /\ (/\ InvokeStep
           /\ client.variant = "signed"
           /\ ~NonEmptyString(ctorCfg.cfg.secretKey)
           /\ ~HasLocation(env))
          => /\ pending' = pending
             /\ last'.st = "rejected"
             /\ last'.req = NoReq
             /\ ArgsValid("signed", last'.op, last'.args)
                   => IsOriginUnavailableError(last'.err)]_vars

C2_Witness ==
    /\ client.variant = "signed"
    /\ ~NonEmptyString(ctorCfg.cfg.secretKey)
    /\ ~HasLocation(env)
    /\ pending = EmptyBag
    /\ last.st = "rejected"
    /\ last.op = "triggerScenario"
    /\ IsOriginUnavailableError(last.err)
    /\ last.req = NoReq

(* ------------------------------- C3 ----------------------------------- *)

RequiredFieldsValid(variant, cfg) ==
    /\ NonEmptyString(GetProp(cfg, "apiKey"))
    /\ NonEmptyString(GetProp(cfg, "domain"))
    /\ variant = "signed" => NonEmptyString(GetProp(cfg, "projectId"))

\* C3: construction from a configuration object fails with
\* ConfigurationError when apiKey, domain or (signed variant) projectId is
\* missing or not a non-empty string, and succeeds when all required fields
\* are non-empty strings, whatever the optional fields are.
C3_ConstructionValidates ==
    (ctorCfg # NoCfg /\ ctorCfg.cfg.t = "object") =>
        IF RequiredFieldsValid(ctorCfg.variant, ctorCfg.cfg)
        THEN /\ ctorErr = NoErr
             /\ client.variant = ctorCfg.variant
             /\ client.apiKey = ctorCfg.cfg.apiKey
             /\ client.domain = ctorCfg.cfg.domain
        ELSE /\ IsConfigurationError(ctorErr)
             /\ client = NoClient

C3_Witness ==
    /\ ctorCfg # NoCfg
    /\ ctorCfg.variant = "signed"
    /\ ctorCfg.cfg.t = "object"
    /\ NonEmptyString(ctorCfg.cfg.apiKey)
    /\ NonEmptyString(ctorCfg.cfg.domain)
    /\ ctorCfg.cfg.projectId = Undefined
    /\ ctorCfg.cfg.secretKey = Str("s")
    /\ ctorErr = Error("Invalid project ID")
    /\ client = NoClient

(* ------------------------------- C4 ----------------------------------- *)

BaseUrlOf(variant) ==
    IF variant = "signed" THEN "https://peakmails.com/api/v1"
    ELSE "https://api.peakmails.com/v1"

QueryOf(a) ==
    IF Arg(a, 1).t = "undefined" THEN "" ELSE "?page=2&limit=10"

\* the path of each operation's endpoint
PathOf(variant, op, a) ==
    IF variant = "signed"
    THEN CASE op = "addContact" -> "/add-contact"
           [] op = "addContactToCategories" -> "/add-contact-to-category"
           [] op = "triggerScenario" -> "/trigger-scenario"
           [] op = "getScenarioCustomFields" ->
                 "/get-scenario-custom-fields?scenario=" \o a[1].scenario.v
    ELSE CASE op = "addContact" -> "/contacts"
           [] op = "addContactToCategories" -> "/contacts/" \o a[1].v \o "/categories"
           [] op = "triggerScenario" -> "/scenarios/" \o a[1].v \o "/trigger"
           [] op = "getScenarios" -> "/scenarios" \o QueryOf(a)
           [] op = "getScenarioCustomFields" -> "/scenarios/" \o a[1].v \o "/custom-fields"
           [] op = "getCategories" -> "/categories" \o QueryOf(a)
           [] op = "getContactDetails" -> "/contacts/" \o a[1].v

\* C4: every request sent carries Authorization 'Bearer ' + apiKey, the
\* configured domain and, on the signed variant, the configured projectId,
\* the origin resolved for the call and the token of that origin; its URL is
\* the fixed base URL followed by the operation's path.
C4_HeadersMatchConfig ==
    \A p \in SentCalls :
        /\ p.req.headers.Authorization = "Bearer " \o ctorCfg.cfg.apiKey.v
        /\ p.req.headers.ContentType = "application/json"
        /\ p.req.headers.Domain = ctorCfg.cfg.domain
        /\ p.req.url = BaseUrlOf(ctorCfg.variant) \o PathOf(ctorCfg.variant, p.op, p.args)
        /\ ctorCfg.variant = "signed" =>
              /\ p.req.headers.Project = ctorCfg.cfg.projectId
              /\ p.req.headers.Origin = p.origin
              /\ p.req.headers.CSRFToken = sha256hex(ctorCfg.cfg.apiKey.v \o p.origin.v)

C4_Witness ==
    /\ ctorCfg # NoCfg
    /\ ctorCfg.variant = "signed"
    /\ ctorCfg.cfg.apiKey = Str("k1")
    /\ \E p \in BagToSet(pending) :
          /\ p.op = "getScenarioCustomFields"
          /\ p.req.headers.Authorization = "Bearer k1"
          /\ p.req.headers.Origin = Str("https://b")
          /\ p.req.headers.CSRFToken = sha256hex("k1https://b")
          /\ p.req.url =
                "https://peakmails.com/api/v1/get-scenario-custom-fields?scenario=s1"

(* ------------------------------- C5 ----------------------------------- *)

\* the transport reported a response with a non-success status
NonSuccess(out) == out.k = "error" /\ out.response

\* the message of an upstream body, "undefined" when it provides none
UpstreamMessage(data) ==
    IF data.t = "object" /\ "message" \in DOMAIN data THEN data.message.v
    ELSE "undefined"

\* C5: when the transport reports a response with a non-success status, the
\* call fails with UpstreamApiError carrying the status code and the
\* message of the upstream body.
C5_UpstreamErrorCarriesStatus ==
    (last.st # "none" /\ NonSuccess(last.out)) =>
        /\ last.st = "rejected"
        /\ IsUpstreamApiError(last.err, last.out.status, UpstreamMessage(last.out.data))

(* ------------------------------- C6 ----------------------------------- *)

\* C6: every failure of the HTTP call is surfaced as exactly one of
\* UpstreamApiError (a response was received), TransportError (sent, no
\* response) or UnexpectedClientError (anything else), also when the body
\* of a non-success response is absent or has no message field.
C6_FailuresClassified ==
    (last.st # "none" /\ last.out.k = "error") =>
        /\ last.st = "rejected"
        /\ IF last.out.response
           THEN IsUpstreamApiError(last.err, last.out.status,
                                   UpstreamMessage(last.out.data))
           ELSE IF last.out.request
           THEN IsTransportError(last.err)
           ELSE IsUnexpectedClientError(last.err, last.out.message)

(* ------------------------------- C7 ----------------------------------- *)

\* C7: when the transport returns a successful response, the operation
\* resolves to exactly the parsed body of that response.
C7_SuccessReturnsBody ==
    (last.st # "none" /\ last.out.k = "response") =>
        /\ last.st = "resolved"
        /\ last.value = last.out.data
        /\ last.err = NoErr

C7_Witness ==
    /\ last.st = "resolved"
    /\ last.op = "addContact"
    /\ last.args = <<[t |-> "object", email |-> Str("a@b.com")]>>
    /\ last.out.status = 200
    /\ last.out.data = [t |-> "object", id |-> Str("c1")]
    /\ last.value = [t |-> "object", id |-> Str("c1")]

(* ------------------------------- C8 ----------------------------------- *)

Sentinel == Str("backend-implementation")

\* a step in which a public operation was invoked and passed its request
\* to the transport
SendStep == InvokeStep /\ BagCardinality(pending') = BagCardinality(pending) + 1

\* the call that a step of sending has added to the calls in flight
NewCall == CHOOSE p \in BagToSet(pending') : pending' = pending (+) SetToBag({p})

\* C8: on a signed client built with a secretKey, every request is sent
\* with the sentinel origin, whether a location object exists (its origin
\* is not used) or not, and no call fails with OriginUnavailableError.
C8_SecretKeyGivesSentinel ==
    [][(/\ InvokeStep
        /\ client.variant = "signed"
        /\ NonEmptyString(ctorCfg.cfg.secretKey))
       => /\ \A p \in SentCalls' :
                p.origin = Sentinel /\ p.req.headers.Origin = Sentinel
          /\ ~SendStep =>
                /\ ~ArgsValid("signed", last'.op, last'.args)
                /\ ~IsOriginUnavailableError(last'.err)]_vars

C8_Witness ==
    /\ client.variant = "signed"
    /\ ctorCfg.cfg.secretKey = Str("s")
    /\ BagCardinality(pending) = 2
    /\ \A p \in BagToSet(pending) :
          p.origin = Sentinel /\ p.req.headers.Origin = Sentinel
    /\ env = Location(Str("https://a"))

(* ------------------------------- C9 ----------------------------------- *)

\* C9 as stated: identical (apiKey, origin) pairs yield identical tokens and
\* distinct pairs yield distinct tokens.
C9_DistinctPairsDistinctTokens ==
    tk.pc = "out" =>
        (tk.t1 = tk.t2 <=> (tk.k1 = tk.k2 /\ tk.o1 = tk.o2))

\* C9 amended: identical pairs yield identical tokens; changing exactly one
\* of apiKey and origin changes the token; two pairs yield the same token
\* exactly when apiKey followed by origin is the same string.
C9_TokenOfConcatenation ==
    tk.pc = "out" =>
        /\ (tk.k1 = tk.k2 /\ tk.o1 = tk.o2) => tk.t1 = tk.t2
        /\ (tk.k1 = tk.k2 /\ tk.o1 # tk.o2) => tk.t1 # tk.t2
        /\ (tk.k1 # tk.k2 /\ tk.o1 = tk.o2) => tk.t1 # tk.t2
        /\ tk.t1 = tk.t2 <=> (tk.k1 \o tk.o1) = (tk.k2 \o tk.o2)

C9_Witness ==
    /\ tk.pc = "out"
    /\ tk.k1 = "k" /\ tk.o1 = "1x"
    /\ tk.k2 = "k1" /\ tk.o2 = "x"
    /\ tk.t1 = tk.t2

(* ------------------------------- C10 ---------------------------------- *)

\* the copies of call p in flight are all still in flight, or all but one
\* that has just settled
KeptIn(p, pend, lst) ==
    \/ CopiesIn(p, pend) >= CopiesIn(p, pending)
    \/ /\ CopiesIn(p, pend) = CopiesIn(p, pending) - 1
       /\ lst.st # "none"
       /\ lst.op = p.op /\ lst.args = p.args /\ lst.req = p.req /\ lst.origin = p.origin

\* the origin a call resolves in the global scope e
OriginIn(e) ==
    IF NonEmptyString(ctorCfg.cfg.secretKey) THEN Sentinel
    ELSE IF HasLocation(e) THEN e.origin ELSE Null

\* C10: under any interleaving of calls on one client, with the browser
\* origin changing between them, no step changes the client's configuration
\* or the request of another call in flight, and a request that is sent
\* carries the origin resolved in its own call and the token of that origin.
C10_CallsIndependent ==
    [][/\ client # NoClient =>
            /\ client' = client
            /\ client.apiKey = ctorCfg.cfg.apiKey
            /\ client.domain = ctorCfg.cfg.domain
            /\ client.baseUrl = Str(BaseUrlOf(ctorCfg.variant))
            /\ client.variant = "signed" =>
                  /\ client.projectId = ctorCfg.cfg.projectId
                  /\ client.secretKey = ctorCfg.cfg.secretKey
       /\ \A q \in BagToSet(pending) : KeptIn(q, pending', last')
       /\ (SendStep /\ client.variant = "signed") =>
            LET p == NewCall IN
            /\ p.origin = OriginIn(env)
            /\ p.req.headers.Origin = OriginIn(env)
            /\ p.req.headers.CSRFToken = sha256hex(client.apiKey.v \o JsToString(OriginIn(env)))]_vars

C10_Witness ==
    /\ client.variant = "signed"
    /\ BagCardinality(pending) = 2
    /\ \E p, q \in BagToSet(pending) :
          /\ p.origin = Str("https://a")
          /\ q.origin = Str("https://b")
          /\ p.req.headers.CSRFToken # q.req.headers.CSRFToken
    /\ env = Location(Str("https://b"))

====
